---- MODULE Spec2Model ----
(***************************************************************************)
(* Model of lambda/index.py: lambda_handler(event, context), the request   *)
(* forwarder that validates an API-gateway event, POSTs the chat message   *)
(* to the FastAPI backend and maps the outcome to a reply envelope.        *)
(*                                                                         *)
(* Python values are tagged records.  A str that holds JSON text is        *)
(* represented by what json.loads makes of it (Text); a str that came out  *)
(* of a parse is a Str.  A dict is a set of <<key, value>> pairs.          *)
(***************************************************************************)
EXTENDS Integers, Sequences, FiniteSets, TLC

VARIABLES
    FASTAPI_ENDPOINT_URL,   \* module-level configuration, read at import
    pc,                     \* position of the current invocation
    event,                  \* the inbound event of the current invocation
    body,                   \* local: the parsed request body
    message,                \* local: body['message']
    conversation_history,   \* local: body.get('conversationHistory', [])
    response,               \* outcome of requests.post
    assistant_response,     \* local: fastapi_response_data.get('result')
    posts,                  \* payloads POSTed during the current invocation
    ret                     \* what the invocation returned

vars == <<FASTAPI_ENDPOINT_URL, pc, event, body, message, conversation_history,
          response, assistant_response, posts, ret>>

\* Longest conversationHistory list a request carries.
MaxHistLen == 2

-----------------------------------------------------------------------------
(* Python / JSON values *)

Unset == [t |-> "unset"]
Absent == [t |-> "absent"]
None == [t |-> "null"]
Bool(b) == [t |-> "bool", b |-> b]
Num(n) == [t |-> "num", n |-> n]
Str(s) == [t |-> "str", s |-> s]
List(xs) == [t |-> "list", items |-> xs]
Dict(kv) == [t |-> "dict", kv |-> kv]
\* a str holding JSON text that decodes to v
JsonText(v) == [t |-> "text", valid |-> TRUE, json |-> v]
\* a str that is not JSON text
RawText(s) == [t |-> "text", valid |-> FALSE, raw |-> s]

Keys(d) == {p[1] : p \in d.kv}
Get(d, k) == (CHOOSE p \in d.kv : p[1] = k)[2]
\* dict.get(k, default)
DictGet(d, k, default) == IF k \in Keys(d) THEN Get(d, k) ELSE default

\* The characters of the strings the model uses (TLC strings are atomic).
Chars(s) ==
    CASE s = "" -> <<>>
      [] s = "hi" -> <<"h", "i">>
      [] s = "message" -> <<"m", "e", "s", "s", "a", "g", "e">>
      [] s = "a message" -> <<"a", " ", "m", "e", "s", "s", "a", "g", "e">>
      [] OTHER -> <<"?">>

\* needle in hay, for str operands: substring search
Substring(needle, hay) ==
    \E i \in 0..(Len(hay) - Len(needle)) :
        SubSeq(hay, i + 1, i + Len(needle)) = needle

\* bool(v) is False
Falsy(v) ==
    \/ v.t = "null"
    \/ v.t = "bool" /\ ~v.b
    \/ v.t = "num" /\ v.n = 0
    \/ v.t = "str" /\ v.s = ""
    \/ v.t = "list" /\ v.items = <<>>
    \/ v.t = "dict" /\ v.kv = {}

\* `k in v` is defined (v is a container)
InDefined(v) == v.t \in {"dict", "list", "str"}

\* `k in v` for a str k
In(k, v) ==
    CASE v.t = "dict" -> k \in Keys(v)
      [] v.t = "list" -> \E i \in 1..Len(v.items) : v.items[i] = Str(k)
      [] v.t = "str" -> Substring(Chars(k), Chars(v.s))
      [] OTHER -> FALSE

\* len(v) is defined
HasLen(v) == v.t \in {"dict", "list", "str"}

-----------------------------------------------------------------------------
(* Exceptions: the class of the raised object and str() of it *)

Exc(type, msg) == [type |-> type, msg |-> msg]

\* The classes an exception of the given class is an instance of.
Bases(type) ==
    CASE type = "ValueError" -> {"ValueError", "Exception"}
      [] type = "JSONDecodeError" -> {"JSONDecodeError", "ValueError", "Exception"}
      [] type = "TypeError" -> {"TypeError", "Exception"}
      [] type = "AttributeError" -> {"AttributeError", "Exception"}
      [] type = "OSError" -> {"OSError", "Exception"}
      [] type = "Timeout" -> {"Timeout", "RequestException", "OSError", "Exception"}
      [] type = "ConnectionError" ->
             {"ConnectionError", "RequestException", "OSError", "Exception"}
      [] type = "HTTPError" -> {"HTTPError", "RequestException", "OSError", "Exception"}
      [] type = "TooManyRedirects" ->
             {"TooManyRedirects", "RequestException", "OSError", "Exception"}
      [] type = "RequestsJSONDecodeError" ->
             {"RequestsJSONDecodeError", "InvalidJSONError", "RequestException",
              "JSONDecodeError", "ValueError", "OSError", "Exception"}
      [] OTHER -> {"BaseException"}

IsInstance(type, classes) == Bases(type) \cap classes # {}

-----------------------------------------------------------------------------
(* Reply envelopes *)

json_dumps(v) == JsonText(v)

CorsHeaders ==
    ("Content-Type" :> "application/json")
    @@ ("Access-Control-Allow-Origin" :> "*")
    @@ ("Access-Control-Allow-Headers" :>
            "Content-Type,X-Amz-Date,Authorization,X-Api-Key,X-Amz-Security-Token")
    @@ ("Access-Control-Allow-Methods" :> "OPTIONS,POST")

Envelope(status, fields) ==
    [t |-> "envelope", statusCode |-> status, headers |-> CorsHeaders,
     body |-> json_dumps(Dict(fields))]

\* the invocation ended with the fault propagating out of lambda_handler
Escaped(exc) == [t |-> "raised", exc |-> exc]

\* the timeout reply with the status of the success reply
TimeoutEnvelopeOk ==
    Envelope(200, {<<"success", Bool(FALSE)>>,
                   <<"error", Str("The request to the backend service timed out.")>>})

\* except requests.exceptions.Timeout
TimeoutEnvelope ==
    Envelope(504, {<<"success", Bool(FALSE)>>,
                   <<"error", Str("The request to the backend service timed out.")>>})

\* `if req_err.response:` in place of `is not None`: a Response is falsy when
\* its status is an error status
RequestExceptionEnvelopeTruthy(exc, resp) ==
    LET has == resp # None /\ ~(400 <= resp.status_code /\ resp.status_code < 600)
        status_code == IF has THEN resp.status_code ELSE 502
        detail == IF has
                  THEN IF resp.content.valid THEN resp.content.json
                       ELSE resp.content
                  ELSE Str(exc.msg)
    IN  Envelope(status_code, {<<"success", Bool(FALSE)>>,
                               <<"error", Str("Backend service error")>>,
                               <<"detail", detail>>})

\* except requests.exceptions.RequestException as req_err;
\* resp is req_err.response (None when no response was received)
RequestExceptionEnvelope(exc, resp) ==
    LET status_code == IF resp # None THEN resp.status_code ELSE 502
        detail == IF resp # None
                  THEN IF resp.content.valid THEN resp.content.json
                       ELSE resp.content
                  ELSE Str(exc.msg)
    IN  Envelope(status_code, {<<"success", Bool(FALSE)>>,
                               <<"error", Str("Backend service error")>>,
                               <<"detail", detail>>})

\* an outer clause without the catch-all
OuterCaughtNarrow == {"ValueError", "OSError"}

\* the classes the outer except clause names
OuterCaught == {"ValueError", "OSError", "Exception"}

\* 400 for json.JSONDecodeError only
OuterStatusJsonOnly(exc) ==
    IF IsInstance(exc.type, {"JSONDecodeError"}) THEN 400 ELSE 500

\* status_code = 400 if isinstance(error, (ValueError, json.JSONDecodeError)) else 500
OuterStatus(exc) ==
    IF IsInstance(exc.type, {"ValueError", "JSONDecodeError"}) THEN 400 ELSE 500

\* except (ValueError, EnvironmentError, Exception) as error
OuterExcept(exc) ==
    IF IsInstance(exc.type, OuterCaught)
    THEN Envelope(OuterStatus(exc), {<<"success", Bool(FALSE)>>,
                                     <<"error", Str(exc.msg)>>,
                                     <<"errorType", Str(exc.type)>>})
    ELSE Escaped(exc)

\* the two inner except clauses in the other order
InnerExceptReordered(exc, resp) ==
    IF IsInstance(exc.type, {"RequestException"})
    THEN RequestExceptionEnvelope(exc, resp)
    ELSE IF IsInstance(exc.type, {"Timeout"}) THEN TimeoutEnvelope
         ELSE OuterExcept(exc)

\* A fault raised inside the inner try: the first matching except clause.
InnerExcept(exc, resp) ==
    IF IsInstance(exc.type, {"Timeout"}) THEN TimeoutEnvelope
    ELSE IF IsInstance(exc.type, {"RequestException"})
         THEN RequestExceptionEnvelope(exc, resp)
         ELSE OuterExcept(exc)

SuccessEnvelope(reply, messages) ==
    Envelope(200, {<<"success", Bool(TRUE)>>,
                   <<"response", reply>>,
                   <<"conversationHistory", List(messages)>>})

HistoryEntry(role, content) == Dict({<<"role", Str(role)>>, <<"content", content>>})

\* the two turns appended in the other order
UpdatedHistorySwapped(history, m, reply) ==
    history \o <<HistoryEntry("assistant", reply), HistoryEntry("user", m)>>

\* messages = conversation_history.copy(), then the two appends
UpdatedHistory(history, m, reply) ==
    history \o <<HistoryEntry("user", m), HistoryEntry("assistant", reply)>>

-----------------------------------------------------------------------------
(* Inputs *)

Entries == {HistoryEntry("user", Str("hi")), HistoryEntry("assistant", Str("yo"))}

Histories == UNION {[1..k -> Entries] : k \in 0..MaxHistLen}

Messages == {Str("hi"), Str("")}

HistoryValues ==
    {List(h) : h \in Histories} \cup {None, Num(5), Str("hi"), Dict({})}

DictBodies ==
    {Dict({}), Dict({<<"other", Str("hi")>>}),
     Dict({<<"conversationHistory", List(<<>>)>>})}
    \cup {Dict({<<"message", m>>}) : m \in Messages}
    \cup {Dict({<<"message", m>>, <<"conversationHistory", h>>}) :
              m \in Messages, h \in HistoryValues}

JsonBodies ==
    DictBodies
    \cup {None, Bool(TRUE), Bool(FALSE), Num(0), Num(5),
          Str(""), Str("hi"), Str("a message"),
          List(<<>>), List(<<Str("hi")>>), List(<<Str("message")>>)}

\* event['body']: missing, an already-parsed value, or a str
EventBodies ==
    {Absent}
    \cup {v \in JsonBodies : v.t # "str"}
    \cup {JsonText(v) : v \in JsonBodies}
    \cup {RawText("{not json")}

\* event['requestContext'] as the gateway builds it
RequestContexts == {"absent", "authorizer", "claims"}

Events == [requestContext : RequestContexts, body : EventBodies]

Urls == {None, Str(""), Str("http://backend/process")}

StatusCodes == {200, 201, 304, 404, 500, 999}

Contents ==
    {RawText("<html>"), RawText("")}
    \cup {JsonText(v) : v \in
            {Dict({<<"result", Str("yo")>>}), Dict({<<"result", Str("")>>}),
             Dict({<<"result", None>>}), Dict({}),
             Dict({<<"detail", Str("boom")>>}), List(<<>>), None}}

Outcome(kind, status_code, content) ==
    [kind |-> kind, status_code |-> status_code, content |-> content]

\* what requests.post does: return a response, or raise
Outcomes ==
    {Outcome("timeout", 0, Absent), Outcome("connection_error", 0, Absent)}
    \cup {Outcome("too_many_redirects", 302, c) : c \in {RawText(""), RawText("<html>")}}
    \cup {Outcome("response", s, c) : s \in StatusCodes, c \in Contents}

\* the exception class response.json() raises on undecodable content
\* (json.JSONDecodeError before requests 2.27, requests' own since)
JsonErrorClasses == {"JSONDecodeError", "RequestsJSONDecodeError"}

-----------------------------------------------------------------------------
(* The handler *)

Init ==
    /\ FASTAPI_ENDPOINT_URL \in Urls
    /\ pc = "idle"
    /\ event = Unset
    /\ body = Unset
    /\ message = Unset
    /\ conversation_history = Unset
    /\ response = Unset
    /\ assistant_response = Unset
    /\ posts = <<>>
    /\ ret = Unset

\* return r (or let the fault r describes propagate)
Return(r) ==
    /\ pc' = "done"
    /\ ret' = r

\* The gateway invokes lambda_handler(event, context).
Invoke(ev) ==
    /\ pc \in {"idle", "done"}
    /\ pc' = "parse"
    /\ event' = ev
    /\ body' = Unset
    /\ message' = Unset
    /\ conversation_history' = Unset
    /\ response' = Unset
    /\ assistant_response' = Unset
    /\ posts' = <<>>
    /\ ret' = Unset
    /\ UNCHANGED FASTAPI_ENDPOINT_URL

\* isinstance(event.get('body'), str)
IsStr(v) == v.t = "text"

\* Lines 22-44: log the event, read the authorizer claims, parse the body.
ParseBody ==
    /\ pc = "parse"
    /\ IF IsStr(event.body)
       THEN IF event.body.valid
            THEN /\ body' = event.body.json
                 /\ pc' = "validate"
                 /\ UNCHANGED ret
            ELSE /\ Return(OuterExcept(Exc("ValueError",
                                           "Invalid JSON format in request body")))
                 /\ UNCHANGED body
       ELSE /\ body' = IF event.body = Absent THEN Dict({}) ELSE event.body
            /\ pc' = "validate"
            /\ UNCHANGED ret
    /\ UNCHANGED <<FASTAPI_ENDPOINT_URL, event, message, conversation_history,
                   response, assistant_response, posts>>

\* Lines 46-54: require 'message', read conversationHistory, log its length.
Validate ==
    /\ pc = "validate"
    /\ IF Falsy(body)
       THEN /\ Return(OuterExcept(Exc("ValueError",
                                      "Request body must contain a 'message' field.")))
            /\ UNCHANGED <<message, conversation_history>>
       ELSE IF ~InDefined(body)
       THEN /\ Return(OuterExcept(Exc("TypeError", "argument is not iterable")))
            /\ UNCHANGED <<message, conversation_history>>
       ELSE IF ~In("message", body)
       THEN /\ Return(OuterExcept(Exc("ValueError",
                                      "Request body must contain a 'message' field.")))
            /\ UNCHANGED <<message, conversation_history>>
       ELSE IF body.t # "dict"
       THEN /\ Return(OuterExcept(Exc("TypeError", "indices must be integers")))
            /\ UNCHANGED <<message, conversation_history>>
       ELSE /\ message' = Get(body, "message")
            /\ conversation_history' = DictGet(body, "conversationHistory", List(<<>>))
            /\ IF HasLen(conversation_history')
               THEN /\ pc' = "config"
                    /\ UNCHANGED ret
               ELSE Return(OuterExcept(Exc("TypeError", "object has no len()")))
    /\ UNCHANGED <<FASTAPI_ENDPOINT_URL, event, body, response, assistant_response,
                   posts>>

\* the configuration check as `if FASTAPI_ENDPOINT_URL is None`
CheckConfigIsNone ==
    /\ pc = "config"
    /\ IF FASTAPI_ENDPOINT_URL = None
       THEN Return(OuterExcept(Exc("OSError", "FastAPI endpoint URL is not configured.")))
       ELSE /\ pc' = "post"
            /\ UNCHANGED ret
    /\ UNCHANGED <<FASTAPI_ENDPOINT_URL, event, body, message, conversation_history,
                   response, assistant_response, posts>>

\* Lines 58-60: the endpoint must be configured.
CheckConfig ==
    /\ pc = "config"
    /\ IF Falsy(FASTAPI_ENDPOINT_URL)
       THEN Return(OuterExcept(Exc("OSError", "FastAPI endpoint URL is not configured.")))
       ELSE /\ pc' = "post"
            /\ UNCHANGED ret
    /\ UNCHANGED <<FASTAPI_ENDPOINT_URL, event, body, message, conversation_history,
                   response, assistant_response, posts>>

\* payload_to_fastapi
Payload(m, h) == Dict({<<"message", m>>, <<"conversationHistory", h>>})

\* a POST that is sent again when the first attempt times out
PostRetry(outcome) ==
    /\ pc = "post"
    /\ posts' = IF outcome.kind = "timeout"
                THEN posts \o <<Payload(message, conversation_history),
                                Payload(message, conversation_history)>>
                ELSE Append(posts, Payload(message, conversation_history))
    /\ response' = outcome
    /\ pc' = "classify"
    /\ UNCHANGED <<FASTAPI_ENDPOINT_URL, event, body, message, conversation_history,
                   assistant_response, ret>>

\* Lines 62-86: build the payload and POST it; the call returns or raises.
Post(outcome) ==
    /\ pc = "post"
    /\ posts' = Append(posts, Payload(message, conversation_history))
    /\ response' = outcome
    /\ pc' = "classify"
    /\ UNCHANGED <<FASTAPI_ENDPOINT_URL, event, body, message, conversation_history,
                   assistant_response, ret>>

\* response.raise_for_status() raises HTTPError
RaisesForStatus(status_code) == 400 <= status_code /\ status_code < 600

\* Lines 88-146: the rest of the inner try and its except clauses.
Classify(jsonError) ==
    /\ pc = "classify"
    /\ IF response.kind = "timeout"
       THEN /\ Return(InnerExcept(Exc("Timeout", "Read timed out."), None))
            /\ UNCHANGED assistant_response
       ELSE IF response.kind = "connection_error"
       THEN /\ Return(InnerExcept(Exc("ConnectionError", "Connection refused"), None))
            /\ UNCHANGED assistant_response
       ELSE IF response.kind = "too_many_redirects"
       THEN /\ Return(InnerExcept(Exc("TooManyRedirects", "Exceeded 30 redirects."),
                                  response))
            /\ UNCHANGED assistant_response
       ELSE IF RaisesForStatus(response.status_code)
       THEN /\ Return(InnerExcept(Exc("HTTPError", "Error for url"), response))
            /\ UNCHANGED assistant_response
       ELSE IF ~response.content.valid
       THEN /\ Return(InnerExcept(Exc(jsonError, "Expecting value"), None))
            /\ UNCHANGED assistant_response
       ELSE IF response.content.json.t # "dict"
       THEN /\ Return(InnerExcept(Exc("AttributeError", "object has no attribute 'get'"),
                                  None))
            /\ UNCHANGED assistant_response
       ELSE /\ assistant_response' = DictGet(response.content.json, "result", None)
            /\ IF assistant_response' = None
               THEN Return(InnerExcept(
                        Exc("ValueError",
                            "Invalid response format received from FastAPI."), None))
               ELSE /\ pc' = "finish"
                    /\ UNCHANGED ret
    /\ UNCHANGED <<FASTAPI_ENDPOINT_URL, event, body, message, conversation_history,
                   response, posts>>

\* Lines 150-175: copy the history, append the two turns, return success.
Finish ==
    /\ pc = "finish"
    /\ IF conversation_history.t = "list"
       THEN Return(SuccessEnvelope(
                assistant_response,
                UpdatedHistory(conversation_history.items, message,
                               assistant_response)))
       ELSE IF conversation_history.t = "dict"
       THEN Return(OuterExcept(Exc("AttributeError",
                                   "'dict' object has no attribute 'append'")))
       ELSE Return(OuterExcept(Exc("AttributeError",
                                   "'str' object has no attribute 'copy'")))
    /\ UNCHANGED <<FASTAPI_ENDPOINT_URL, event, body, message, conversation_history,
                   response, assistant_response, posts>>

Next ==
    \/ \E ev \in Events : Invoke(ev)
    \/ ParseBody
    \/ Validate
    \/ CheckConfig
    \/ \E outcome \in Outcomes : Post(outcome)
    \/ \E jsonError \in JsonErrorClasses : Classify(jsonError)
    \/ Finish

Spec == Init /\ [][Next]_vars

-----------------------------------------------------------------------------
(* Properties *)

Returned == pc = "done" /\ ret.t = "envelope"
ReplyBody == ret.body.json
Failed(status) ==
    /\ Returned
    /\ ret.statusCode = status
    /\ Get(ReplyBody, "success") = Bool(FALSE)

\* the request's conversationHistory (default: the empty list)
InputHistory == DictGet(body, "conversationHistory", List(<<>>))

\* the parsed body carries no message, or an empty one
NoMessage ==
    /\ body # Unset
    /\ \/ body.t # "dict"
       \/ "message" \notin Keys(body)
       \/ Get(body, "message") = Str("")

\* the POST returned a response (it did not raise)
Responded == response # Unset /\ response.kind = "response"

\* the backend answered 2xx with a JSON object
Json2xx ==
    /\ Responded
    /\ response.status_code \in 200..299
    /\ response.content.valid
    /\ response.content.json.t = "dict"

\* C1: every event whose parsed body has no `message`, or an empty one, is
\* answered 400 with success=false, and nothing is POSTed in that invocation.
C1_MissingMessageIs400 ==
    /\ NoMessage => posts = <<>>
    /\ (pc = "done" /\ NoMessage) => Failed(400)

\* C2 as stated: message present, endpoint configured, backend 2xx with a JSON
\* body containing `result`: the reply is 200, success=true, response = result,
\* and the history is the input history followed by the user and assistant turns.
C2_SuccessAppendsTwo_Original ==
    (/\ pc = "done"
     /\ body # Unset /\ body.t = "dict" /\ "message" \in Keys(body)
     /\ ~Falsy(FASTAPI_ENDPOINT_URL)
     /\ Json2xx
     /\ "result" \in Keys(response.content.json))
    => /\ Returned
       /\ ret.statusCode = 200
       /\ Get(ReplyBody, "success") = Bool(TRUE)
       /\ Get(ReplyBody, "response") = Get(response.content.json, "result")
       /\ InputHistory.t = "list"
       /\ Get(ReplyBody, "conversationHistory") =
              List(InputHistory.items
                   \o <<HistoryEntry("user", Get(body, "message")),
                        HistoryEntry("assistant",
                                     Get(response.content.json, "result"))>>)
       /\ Len(Get(ReplyBody, "conversationHistory").items) =
              Len(InputHistory.items) + 2

\* C2 (amended): the same, for requests whose conversationHistory is absent or
\* a list and backend bodies whose `result` is not null.
C2_SuccessAppendsTwo ==
    (/\ pc = "done"
     /\ body # Unset /\ body.t = "dict" /\ "message" \in Keys(body)
     /\ InputHistory.t = "list"
     /\ ~Falsy(FASTAPI_ENDPOINT_URL)
     /\ Json2xx
     /\ "result" \in Keys(response.content.json)
     /\ Get(response.content.json, "result") # None)
    => /\ Returned
       /\ ret.statusCode = 200
       /\ Get(ReplyBody, "success") = Bool(TRUE)
       /\ Get(ReplyBody, "response") = Get(response.content.json, "result")
       /\ Get(ReplyBody, "conversationHistory") =
              List(InputHistory.items
                   \o <<HistoryEntry("user", Get(body, "message")),
                        HistoryEntry("assistant",
                                     Get(response.content.json, "result"))>>)
       /\ Len(Get(ReplyBody, "conversationHistory").items) =
              Len(InputHistory.items) + 2

C2_Witness ==
    /\ Returned
    /\ ret.statusCode = 200
    /\ Json2xx
    /\ InputHistory.t = "list"
    /\ Len(InputHistory.items) = MaxHistLen
    /\ Len(Get(ReplyBody, "conversationHistory").items) = MaxHistLen + 2

\* C3: a 2xx backend answer whose JSON body lacks `result` is answered 502 with
\* success=false.
C3_MissingResultIs502 ==
    (/\ pc = "done"
     /\ Json2xx
     /\ "result" \notin Keys(response.content.json))
    => Failed(502)

\* the detail the reply carries for a backend error: the parsed error body,
\* or the raw text when it does not parse
ErrorDetail ==
    IF response.content.valid THEN response.content.json ELSE response.content

\* C4 as stated: a backend answer with status 400 or above is answered with the
\* backend's status, success=false and the backend's error body as detail.
C4_BackendStatusPropagates_Original ==
    (pc = "done" /\ Responded /\ response.status_code >= 400)
    => /\ Failed(response.status_code)
       /\ Get(ReplyBody, "detail") = ErrorDetail

\* C4 (amended): a backend answer with a status from 400 to 599 is answered
\* with the backend's status, success=false and the backend's error body
\* (parsed as JSON when it parses, the raw text otherwise) as detail.
C4_BackendStatusPropagates ==
    (/\ pc = "done"
     /\ Responded
     /\ response.status_code >= 400
     /\ response.status_code <= 599)
    => /\ Failed(response.status_code)
       /\ Get(ReplyBody, "detail") = ErrorDetail

C4_Witness ==
    /\ Failed(500)
    /\ Responded
    /\ response.status_code = 500
    /\ Get(ReplyBody, "detail") = Dict({<<"detail", Str("boom")>>})

\* C5: when the POST fails before any response arrives, the reply is
\* success=false with 504 for a timeout and 502 for any other failure.
C5_NoResponseIs504Or502 ==
    /\ (pc = "done" /\ response # Unset /\ response.kind = "timeout") => Failed(504)
    /\ (pc = "done" /\ response # Unset /\ response.kind = "connection_error")
           => Failed(502)

C5_Witness ==
    /\ Failed(504)
    /\ response # Unset
    /\ response.kind = "timeout"

\* the request got through parsing and the message check without being rejected
PassedValidation ==
    /\ body # Unset
    /\ ~Falsy(body)
    /\ InDefined(body) => In("message", body)

\* C6: with the endpoint URL unset or empty, every request that passes parsing
\* and message validation is answered 500 with success=false, and nothing is
\* POSTed in that invocation.
C6_UnconfiguredIs500 ==
    /\ Falsy(FASTAPI_ENDPOINT_URL) => posts = <<>>
    /\ (pc = "done" /\ Falsy(FASTAPI_ENDPOINT_URL) /\ PassedValidation) => Failed(500)

C6_Witness ==
    /\ Failed(500)
    /\ FASTAPI_ENDPOINT_URL = Str("")
    /\ message = Str("hi")
    /\ DictGet(ReplyBody, "errorType", None) = Str("OSError")

\* the reply is {statusCode, headers, body} with a JSON content type and a body
\* that is JSON text of an object carrying a boolean success
WellFormed(r) ==
    /\ r.t = "envelope"
    /\ r.statusCode \in Int
    /\ "Content-Type" \in DOMAIN r.headers
    /\ r.headers["Content-Type"] = "application/json"
    /\ r.body.t = "text"
    /\ r.body.valid
    /\ r.body.json.t = "dict"
    /\ "success" \in Keys(r.body.json)
    /\ Get(r.body.json, "success").t = "bool"

\* a step of the invocation in progress
HandlerStep ==
    \/ ParseBody
    \/ Validate
    \/ CheckConfig
    \/ \E outcome \in Outcomes : Post(outcome)
    \/ \E jsonError \in JsonErrorClasses : Classify(jsonError)
    \/ Finish

\* C7: no fault escapes lambda_handler: whatever the event and the backend
\* outcome, the invocation ends by returning a well-formed envelope (what it
\* returns is well formed, and until it returns its next step is never blocked).
C7_AlwaysEnvelope ==
    /\ pc = "done" => WellFormed(ret)
    /\ pc \notin {"idle", "done"} => ENABLED HandlerStep

C7_Witness ==
    /\ pc = "done"
    /\ WellFormed(ret)
    /\ DictGet(ReplyBody, "errorType", None) = Str("AttributeError")
    /\ conversation_history # Unset
    /\ conversation_history.t = "str"

\* parsing, validation (message present, history read) and the configuration
\* check all passed
PassedChecks ==
    /\ body # Unset
    /\ body.t = "dict"
    /\ "message" \in Keys(body)
    /\ HasLen(InputHistory)
    /\ ~Falsy(FASTAPI_ENDPOINT_URL)

\* C8: at most one POST per invocation; exactly one once parsing, validation
\* and the configuration check have passed; never a second one.
C8_OnePost ==
    /\ Len(posts) <= 1
    /\ (pc \in {"classify", "finish", "done"} /\ PassedChecks) => Len(posts) = 1

C8_Witness ==
    /\ pc = "done"
    /\ PassedChecks
    /\ response.kind = "timeout"
    /\ Len(posts) = 1

\* C9: a body that is a string but not valid JSON is answered 400 with
\* success=false, and nothing is POSTed in that invocation.
C9_BadJsonIs400 ==
    /\ (event # Unset /\ IsStr(event.body) /\ ~event.body.valid) => posts = <<>>
    /\ (pc = "done" /\ IsStr(event.body) /\ ~event.body.valid) => Failed(400)

C9_Witness ==
    /\ Failed(400)
    /\ IsStr(event.body)
    /\ ~event.body.valid
    /\ ~Falsy(FASTAPI_ENDPOINT_URL)

\* C10: success is true exactly when statusCode is 200; a failure reply carries
\* a string error and neither response nor conversationHistory; a success
\* reply carries both.
C10_SuccessIff200 ==
    Returned =>
        LET ok == Get(ReplyBody, "success") = Bool(TRUE)
        IN  /\ ok <=> ret.statusCode = 200
            /\ ~ok => /\ "error" \in Keys(ReplyBody)
                      /\ Get(ReplyBody, "error").t = "str"
                      /\ "response" \notin Keys(ReplyBody)
                      /\ "conversationHistory" \notin Keys(ReplyBody)
            /\ ok => /\ "response" \in Keys(ReplyBody)
                     /\ "conversationHistory" \in Keys(ReplyBody)

C10_Witness ==
    /\ Returned
    /\ ret.statusCode = 200
    /\ Responded
    /\ response.status_code = 999

====
